---- MODULE Spec2Model ----
(***************************************************************************)
(* Model of crates/sui-json-rpc/src/read_api.rs: the read portion of the   *)
(* JSON-RPC interface of a fullnode (ReadApi).                             *)
(*                                                                         *)
(* Each handler of ReadApi is an operator computing the handler's result   *)
(* from the store and the request, and an action that performs one call    *)
(* and records request and response.  The store (AuthorityState), the      *)
(* page-limit capping function, the identifier validation, the response    *)
(* conversions and the hashing live outside read_api.rs; they are modelled *)
(* from the specification of the read API.                                 *)
(***************************************************************************)
EXTENDS Integers, Sequences, FiniteSets, TLC

VARIABLES
    component,  \* which part of the API this behaviour exercises
    store,      \* the external store's content relevant to the component
    req,        \* the last request: [op |-> ..., ...]
    resp,       \* the last response: [ok |-> BOOLEAN, ...]
    session     \* a client following next_cursor: [start, acc, sizes]

vars == <<component, store, req, resp, session>>

(***************************************************************************)
(* Option<T>, Vec<T> helpers                                               *)
(***************************************************************************)
None == << >>
Some(x) == <<x>>
IsSome(o) == o # None
Unwrap(o) == o[1]

Min(a, b) == IF a < b THEN a ELSE b

\* Vec::truncate(n): keeps the first n elements
Truncate(s, n) == SubSeq(s, 1, Min(n, Len(s)))

\* Vec::get(i) with a 0-based index
Get(s, i) == IF i < Len(s) THEN Some(s[i + 1]) ELSE None

Reverse(s) == [i \in 1..Len(s) |-> s[Len(s) + 1 - i]]

\* the elements of a finite set of integers as an ascending sequence
RECURSIVE SortedSeq(_)
SortedSeq(S) ==
    IF S = {} THEN << >>
    ELSE LET m == CHOOSE x \in S : \A y \in S : x <= y
         IN <<m>> \o SortedSeq(S \ {m})

NoRequest == [op |-> "none"]
NoResponse == [ok |-> FALSE, error |-> "none"]
NoSession == [start |-> None, acc |-> << >>, sizes |-> << >>]

(***************************************************************************)
(* PaginatedQuery: get_dynamic_fields, get_transactions,                   *)
(* get_objects_owned_by_address                                            *)
(***************************************************************************)
MaxKey == 5          \* keys (object ids / transaction digests) are 1..MaxKey
MaxPageSize == 3     \* the cap of cap_page_limit, scaled down

Keys == 1..MaxKey
Selectors == {"A", "B"}   \* a parent object id, a transaction query, an owner address
Limits == {None} \cup {Some(n) : n \in 0..(MaxPageSize + 1)}
Cursors == {None} \cup {Some(k) : k \in Keys}

\* the listing store: each key belongs to the listing of one selector, or to none
ListingStores == [Keys -> Selectors \cup {"absent"}]

\* crate::api::cap_page_limit: the limit clamped into [1, MaxPageSize];
\* an absent limit gives the fixed page size
cap_page_limit(limit) ==
    IF limit = None THEN MaxPageSize
    ELSE IF Unwrap(limit) < 1 THEN 1
    ELSE IF Unwrap(limit) > MaxPageSize THEN MaxPageSize
    ELSE Unwrap(limit)

\* the ordered source of a selector, ascending
SourceOf(st, sel) == SortedSeq({k \in Keys : st[k] = sel})

\* the store's listing primitive: at most n items strictly after the cursor
\* (the cursor is exclusive) in the requested order
StoreList(st, sel, cursor, n, descending) ==
    LET all == {k \in Keys : st[k] = sel}
        after == IF cursor = None THEN all
                 ELSE IF descending THEN {k \in all : k < Unwrap(cursor)}
                 ELSE {k \in all : k > Unwrap(cursor)}
        asc == SortedSeq(after)
    IN Truncate(IF descending THEN Reverse(asc) ELSE asc, n)

\* AuthorityState::get_dynamic_fields: the DynamicFieldInfo of the fields
state_get_dynamic_fields(st, parent, cursor, n) ==
    LET ids == StoreList(st, parent, cursor, n, FALSE)
    IN [i \in 1..Len(ids) |-> [object_id |-> ids[i]]]

\* AuthorityState::get_transactions: the digests matching the query
state_get_transactions(st, query, cursor, n, descending) ==
    StoreList(st, query, cursor, n, descending)

\* AuthorityState::get_owner_objects: every ObjectInfo of the owner
state_get_owner_objects(st, address) ==
    LET ids == SourceOf(st, address)
    IN [i \in 1..Len(ids) |-> [object_id |-> ids[i]]]

UpstreamFailure == [ok |-> FALSE, error |-> "UpstreamFailure"]

\* ReadApi::get_dynamic_fields
get_dynamic_fields(st, parent_object_id, cursor, limit, storeFails) ==
    IF storeFails THEN UpstreamFailure
    ELSE LET lim == cap_page_limit(limit)
             data == state_get_dynamic_fields(st, parent_object_id, cursor, lim + 1)
             got == Get(data, lim)
             next_cursor == IF IsSome(got) THEN Some(Unwrap(got).object_id) ELSE None
         IN [ok |-> TRUE, data |-> Truncate(data, lim), next_cursor |-> next_cursor]

\* get_transactions without the extra item: only `limit` items are fetched
get_transactions_no_overscan(st, query, cursor, limit, descending_order, storeFails) ==
    IF storeFails THEN UpstreamFailure
    ELSE LET lim == cap_page_limit(limit)
             descending == IF descending_order = None THEN FALSE
                           ELSE Unwrap(descending_order)
             data == state_get_transactions(st, query, cursor, lim, descending)
         IN [ok |-> TRUE, data |-> Truncate(data, lim), next_cursor |-> Get(data, lim)]

\* ReadApi::get_transactions
get_transactions(st, query, cursor, limit, descending_order, storeFails) ==
    IF storeFails THEN UpstreamFailure
    ELSE LET lim == cap_page_limit(limit)
             descending == IF descending_order = None THEN FALSE
                           ELSE Unwrap(descending_order)
             data == state_get_transactions(st, query, cursor, lim + 1, descending)
             next_cursor == Get(data, lim)
         IN [ok |-> TRUE, data |-> Truncate(data, lim), next_cursor |-> next_cursor]

\* get_objects_owned_by_address cut to one page of the capped size
get_objects_owned_by_address_paged(st, address, storeFails) ==
    IF storeFails THEN UpstreamFailure
    ELSE [ok |-> TRUE,
          data |-> Truncate(state_get_owner_objects(st, address), MaxPageSize)]

\* ReadApi::get_objects_owned_by_address: a plain Vec<SuiObjectInfo>
get_objects_owned_by_address(st, address, storeFails) ==
    IF storeFails THEN UpstreamFailure
    ELSE [ok |-> TRUE, data |-> state_get_owner_objects(st, address)]

\* the keys of the items of a response, whatever the listing
KeyOf(op, item) == IF op = "get_transactions" THEN item ELSE item.object_id
KeysOf(op, data) == [i \in 1..Len(data) |-> KeyOf(op, data[i])]

\* the handler a paged request names
ListPage(st, r, storeFails) ==
    IF r.op = "get_dynamic_fields"
    THEN get_dynamic_fields(st, r.sel, r.cursor, r.limit, storeFails)
    ELSE get_transactions(st, r.sel, r.cursor, r.limit, r.descending, storeFails)

PagedRequests ==
    [op : {"get_dynamic_fields"}, sel : Selectors, cursor : Cursors, limit : Limits,
     descending : {None}]
    \cup
    [op : {"get_transactions"}, sel : Selectors, cursor : Cursors, limit : Limits,
     descending : {None, Some(FALSE), Some(TRUE)}]

InitPage ==
    /\ component = "PaginatedQuery"
    /\ store \in ListingStores
    /\ req = NoRequest
    /\ resp = NoResponse
    /\ session = NoSession

\* a client issues a listing call with a cursor of its choice
CallListing ==
    /\ component = "PaginatedQuery"
    /\ req = NoRequest
    /\ \E r \in PagedRequests, storeFails \in BOOLEAN :
        LET page == ListPage(store, r, storeFails)
        IN /\ req' = r
           /\ resp' = page
           /\ session' = IF page.ok
                         THEN [start |-> r.cursor,
                               acc |-> KeysOf(r.op, page.data),
                               sizes |-> <<Len(page.data)>>]
                         ELSE NoSession
           /\ UNCHANGED <<component, store>>

\* the client calls again with the previous page's next_cursor
FollowNextCursor ==
    /\ component = "PaginatedQuery"
    /\ req.op \in {"get_dynamic_fields", "get_transactions"}
    /\ resp.ok
    /\ IsSome(resp.next_cursor)
    /\ \E storeFails \in BOOLEAN :
        /\ LET r == [req EXCEPT !.cursor = resp.next_cursor]
               page == ListPage(store, r, storeFails)
           IN /\ req' = r
              /\ resp' = page
              /\ session' = IF page.ok
                            THEN [session EXCEPT
                                    !.acc = @ \o KeysOf(r.op, page.data),
                                    !.sizes = Append(@, Len(page.data))]
                            ELSE NoSession
        /\ UNCHANGED <<component, store>>

CallOwnedObjects ==
    /\ component = "PaginatedQuery"
    /\ req = NoRequest
    /\ \E address \in Selectors, storeFails \in BOOLEAN :
        /\ req' = [op |-> "get_objects_owned_by_address", sel |-> address]
        /\ resp' = get_objects_owned_by_address(store, address, storeFails)
        /\ session' = NoSession
        /\ UNCHANGED <<component, store>>

\* the client drops the response; the next request is independent of it
Forget ==
    /\ req # NoRequest
    /\ req' = NoRequest
    /\ resp' = NoResponse
    /\ session' = NoSession
    /\ UNCHANGED <<component, store>>

NextPage == CallListing \/ FollowNextCursor \/ CallOwnedObjects \/ Forget

SpecPage == InitPage /\ [][NextPage]_vars

(***************************************************************************)
(* Claims about PaginatedQuery (checked under SpecPage)                    *)
(***************************************************************************)
Paged == req.op \in {"get_dynamic_fields", "get_transactions"} /\ resp.ok
Descending == req.op = "get_transactions" /\ req.descending = Some(TRUE)
EffectiveLimit == cap_page_limit(req.limit)
Matching == {k \in Keys : store[k] = req.sel}
FullSource ==
    IF Descending THEN Reverse(SortedSeq(Matching)) ELSE SortedSeq(Matching)

\* the items of the source strictly beyond a boundary in the requested order
Beyond(boundary) ==
    IF boundary = None THEN Matching
    ELSE IF Descending THEN {k \in Matching : k < Unwrap(boundary)}
    ELSE {k \in Matching : k > Unwrap(boundary)}

\* C1: pagination completeness. A session that started with cursor = None and
\* followed next_cursor until a page came back with next_cursor = None has
\* received the full ordered source, each item exactly once.
PaginationCompleteness ==
    (Paged /\ session.start = None /\ resp.next_cursor = None)
        => session.acc = FullSource

\* C2: when more than `limit` items were fetched, next_cursor is the key of the
\* limit-th item, the last one kept in data, and the extra item is dropped;
\* otherwise next_cursor is None.
NextCursorIsLastKept ==
    Paged =>
        LET fetched == StoreList(store, req.sel, req.cursor, EffectiveLimit + 1,
                                 Descending)
        IN IF Len(fetched) > EffectiveLimit
           THEN /\ resp.next_cursor = Some(fetched[EffectiveLimit])
                /\ KeysOf(req.op, resp.data) = SubSeq(fetched, 1, EffectiveLimit)
           ELSE resp.next_cursor = None

\* C3: next_cursor is present iff the source holds an item after the last item
\* of data (after the cursor when data is empty) in the requested order; data
\* never holds more than `limit` items; an empty source gives an empty page
\* without next_cursor.
NextCursorIffMore ==
    Paged =>
        LET keys == KeysOf(req.op, resp.data)
            boundary == IF keys = << >> THEN req.cursor ELSE Some(keys[Len(keys)])
        IN /\ IsSome(resp.next_cursor) <=> Beyond(boundary) # {}
           /\ Len(keys) <= EffectiveLimit
           /\ Matching = {} => (resp.data = << >> /\ resp.next_cursor = None)

NextCursorIffMoreWitness ==
    /\ Paged
    /\ Descending
    /\ IsSome(req.cursor)
    /\ Len(resp.data) = 2
    /\ IsSome(resp.next_cursor)

\* C9 (as claimed): the listing of the objects an address owns returns at most
\* `limit` items per call, and no limit exceeds the cap of cap_page_limit.
OwnedObjectsPaged ==
    (req.op = "get_objects_owned_by_address" /\ resp.ok)
        => Len(resp.data) <= MaxPageSize

\* C9 (amended): get_objects_owned_by_address takes the address alone and returns
\* every object the address owns in one list, in the store's order, without a
\* next_cursor.
OwnedObjectsReturnedWhole ==
    (req.op = "get_objects_owned_by_address" /\ resp.ok)
        => /\ KeysOf(req.op, resp.data) = SortedSeq(Matching)
           /\ DOMAIN resp = {"ok", "data"}

OwnedObjectsReturnedWholeWitness ==
    /\ req.op = "get_objects_owned_by_address"
    /\ resp.ok
    /\ Len(resp.data) = MaxPageSize + 2

(***************************************************************************)
(* CheckpointLookup: get_checkpoint, get_checkpoint_internal               *)
(***************************************************************************)
MaxSeq == 2          \* checkpoint sequence numbers are 1..MaxSeq
MaxContents == 2     \* distinct checkpoint contents are 1..MaxContents

Seqs == 1..MaxSeq
ContentValues == {[transactions |-> c] : c \in 1..MaxContents}

\* CheckpointContents::digest: a collision-free hash, kept as its pre-image
ContentsDigestOf(contents) == <<"CheckpointContentsDigest", contents.transactions>>
ContentDigests == {ContentsDigestOf(c) : c \in ContentValues}

Summaries == [sequence_number : Seqs, content_digest : ContentDigests]

\* CheckpointSummary::digest
CheckpointDigestOf(summary) ==
    <<"CheckpointDigest", summary.sequence_number, summary.content_digest>>

\* the checkpoint store: at most one summary per sequence number, and a set of
\* contents, each found under its own digest
CheckpointStores ==
    {[summaries |-> S, contents |-> C] :
        S \in {T \in SUBSET Summaries :
                 \A a, b \in T : a.sequence_number = b.sequence_number => a = b},
        C \in SUBSET ContentValues}

CheckpointIds ==
    {[kind |-> "SequenceNumber", v |-> n] : n \in Seqs}
    \cup {[kind |-> "Digest", v |-> CheckpointDigestOf(m)] : m \in Summaries}

\* which store access fails for a reason of the store's own
Faults == {"none", "summary", "contents"}

StoreOk(v) == [ok |-> TRUE, value |-> v]
StoreErr(kind, what) == [ok |-> FALSE, error |-> [kind |-> kind, what |-> what]]

\* AuthorityState::get_checkpoint_summary_by_sequence_number
state_get_checkpoint_summary_by_sequence_number(st, seq, fault) ==
    IF fault = "summary" THEN StoreErr("UpstreamFailure", "summary")
    ELSE LET found == {m \in st.summaries : m.sequence_number = seq}
         IN IF found = {} THEN StoreErr("NotFound", "summary")
            ELSE StoreOk(CHOOSE m \in found : TRUE)

\* AuthorityState::get_checkpoint_summary_by_digest
state_get_checkpoint_summary_by_digest(st, digest, fault) ==
    IF fault = "summary" THEN StoreErr("UpstreamFailure", "summary")
    ELSE LET found == {m \in st.summaries : CheckpointDigestOf(m) = digest}
         IN IF found = {} THEN StoreErr("NotFound", "summary")
            ELSE StoreOk(CHOOSE m \in found : TRUE)

\* AuthorityState::get_checkpoint_contents
state_get_checkpoint_contents(st, digest, fault) ==
    IF fault = "contents" THEN StoreErr("UpstreamFailure", "contents")
    ELSE LET found == {c \in st.contents : ContentsDigestOf(c) = digest}
         IN IF found = {} THEN StoreErr("NotFound", "contents")
            ELSE StoreOk(CHOOSE c \in found : TRUE)

\* get_checkpoint_internal taking whatever contents the store holds, not the
\* contents the summary references
get_checkpoint_internal_any_contents(st, id, fault) ==
    LET summary == IF id.kind = "SequenceNumber"
                   THEN state_get_checkpoint_summary_by_sequence_number(st, id.v, fault)
                   ELSE state_get_checkpoint_summary_by_digest(st, id.v, fault)
    IN IF ~summary.ok THEN summary
       ELSE IF st.contents = {} \/ fault = "contents"
            THEN state_get_checkpoint_contents(st, summary.value.content_digest, fault)
            ELSE [ok |-> TRUE,
                  value |-> [summary |-> summary.value,
                             contents |-> CHOOSE c \in st.contents :
                                            \A d \in st.contents :
                                              c.transactions <= d.transactions]]

\* ReadApi::get_checkpoint_internal: each `?` returns the store's error as it is
get_checkpoint_internal(st, id, fault) ==
    LET summary == IF id.kind = "SequenceNumber"
                   THEN state_get_checkpoint_summary_by_sequence_number(st, id.v, fault)
                   ELSE state_get_checkpoint_summary_by_digest(st, id.v, fault)
    IN IF ~summary.ok THEN summary
       ELSE LET content == state_get_checkpoint_contents(
                               st, summary.value.content_digest, fault)
            IN IF ~content.ok THEN content
               ELSE [ok |-> TRUE,
                     value |-> [summary |-> summary.value, contents |-> content.value]]

\* ReadApi::get_checkpoint
get_checkpoint(st, id, fault) == get_checkpoint_internal(st, id, fault)

InitCheckpoint ==
    /\ component = "CheckpointLookup"
    /\ store \in CheckpointStores
    /\ req = NoRequest
    /\ resp = NoResponse
    /\ session = NoSession

CallGetCheckpoint ==
    /\ component = "CheckpointLookup"
    /\ req = NoRequest
    /\ \E id \in CheckpointIds, fault \in Faults :
        /\ req' = [op |-> "get_checkpoint", id |-> id, fault |-> fault]
        /\ resp' = get_checkpoint(store, id, fault)
        /\ UNCHANGED <<component, store, session>>

NextCheckpoint == CallGetCheckpoint \/ Forget

SpecCheckpoint == InitCheckpoint /\ [][NextCheckpoint]_vars

(***************************************************************************)
(* Claims about CheckpointLookup (checked under SpecCheckpoint)            *)
(***************************************************************************)
\* the summaries of the store the request's identifier names
Named ==
    {m \in store.summaries :
        IF req.id.kind = "SequenceNumber" THEN m.sequence_number = req.id.v
        ELSE CheckpointDigestOf(m) = req.id.v}

\* C5: a missing summary is reported as CheckpointNotFound (a not-found of the
\* checkpoint); contents missing after the summary was found are reported as
\* StorageInconsistency, never as a not-found.
CheckpointErrorsDistinguished ==
    (req.op = "get_checkpoint" /\ req.fault = "none") =>
        /\ Named = {} =>
             (~resp.ok /\ resp.error.kind = "NotFound" /\ resp.error.what = "summary")
        /\ (Named # {} /\ \A m \in Named, c \in store.contents :
                              ContentsDigestOf(c) # m.content_digest) =>
             (~resp.ok /\ resp.error.kind = "StorageInconsistency")

\* C6: checkpoint consistency. When get_checkpoint succeeds, the digest of the
\* returned contents is the content digest embedded in the returned summary.
CheckpointConsistency ==
    (req.op = "get_checkpoint" /\ resp.ok) =>
        /\ ContentsDigestOf(resp.value.contents) = resp.value.summary.content_digest
        /\ resp.value.summary \in Named

CheckpointConsistencyWitness ==
    /\ req.op = "get_checkpoint"
    /\ req.id.kind = "Digest"
    /\ resp.ok
    /\ Cardinality(store.contents) > 1

(***************************************************************************)
(* ObjectResolver: get_object, try_get_past_object                         *)
(***************************************************************************)
MaxVersion == 3      \* object versions are 1..MaxVersion

Versions == 1..MaxVersion
ObjectIds == {"0x5", "0x0"}       \* "0x0" never existed

\* the history of object "0x5": the versions that exist, whether the highest of
\* them is a deletion, the first version still retained, and whether the latest
\* object converts to its JSON form
ObjectStores ==
    [versions : SUBSET Versions, deleted : BOOLEAN, retained_from : Versions,
     convertible : BOOLEAN]

Latest(S) == CHOOSE v \in S : \A w \in S : w <= v

\* AuthorityState::get_object_read
state_get_object_read(st, object_id, storeFails) ==
    IF storeFails THEN StoreErr("UpstreamFailure", "object")
    ELSE IF object_id # "0x5" \/ st.versions = {}
    THEN StoreOk([kind |-> "NotExists", id |-> object_id])
    ELSE IF st.deleted
    THEN StoreOk([kind |-> "Deleted", id |-> object_id, version |-> Latest(st.versions)])
    ELSE StoreOk([kind |-> "Exists", id |-> object_id, version |-> Latest(st.versions),
                  convertible |-> st.convertible])

\* AuthorityState::get_past_object_read
state_get_past_object_read(st, object_id, version, storeFails) ==
    IF storeFails THEN StoreErr("UpstreamFailure", "object")
    ELSE IF object_id # "0x5" \/ st.versions = {}
    THEN StoreOk([kind |-> "VersionNotFound", id |-> object_id, version |-> version])
    ELSE IF version < st.retained_from
    THEN StoreOk([kind |-> "OutOfRetainedRange", id |-> object_id, version |-> version])
    ELSE IF version \notin st.versions
    THEN StoreOk([kind |-> "VersionNotFound", id |-> object_id, version |-> version])
    ELSE IF st.deleted /\ version = Latest(st.versions)
    THEN StoreOk([kind |-> "Deleted", id |-> object_id, version |-> version])
    ELSE StoreOk([kind |-> "VersionFound", id |-> object_id, version |-> version,
                  convertible |-> st.convertible])

\* TryFrom<ObjectRead> for GetObjectDataResponse: variant to variant; the
\* conversion of the object itself can fail
ObjectReadTryInto(read) ==
    IF read.kind = "Exists"
    THEN IF read.convertible
         THEN [ok |-> TRUE,
               value |-> [status |-> "Exists", id |-> read.id, version |-> read.version]]
         ELSE StoreErr("ConversionFailed", "object")
    ELSE IF read.kind = "Deleted"
    THEN [ok |-> TRUE,
          value |-> [status |-> "Deleted", id |-> read.id, version |-> read.version]]
    ELSE [ok |-> TRUE, value |-> [status |-> "NotAnObject", id |-> read.id]]

\* TryFrom<PastObjectRead> for GetPastObjectDataResponse
PastObjectReadTryInto(read) ==
    IF read.kind = "VersionFound"
    THEN IF read.convertible
         THEN [ok |-> TRUE,
               value |-> [status |-> "VersionFound", id |-> read.id,
                          version |-> read.version]]
         ELSE StoreErr("ConversionFailed", "object")
    ELSE [ok |-> TRUE,
          value |-> [status |-> read.kind, id |-> read.id, version |-> read.version]]

\* get_object answering "not an object" for whatever does not exist now
get_object_collapsed(st, object_id, storeFails) ==
    LET read == state_get_object_read(st, object_id, storeFails)
    IN IF ~read.ok THEN read
       ELSE IF read.value.kind = "Exists" THEN ObjectReadTryInto(read.value)
       ELSE [ok |-> TRUE, value |-> [status |-> "NotAnObject", id |-> object_id]]

\* ReadApi::get_object
get_object(st, object_id, storeFails) ==
    LET read == state_get_object_read(st, object_id, storeFails)
    IN IF ~read.ok THEN read ELSE ObjectReadTryInto(read.value)

\* ReadApi::try_get_past_object
try_get_past_object(st, object_id, version, storeFails) ==
    LET read == state_get_past_object_read(st, object_id, version, storeFails)
    IN IF ~read.ok THEN read ELSE PastObjectReadTryInto(read.value)

InitObject ==
    /\ component = "ObjectResolver"
    /\ store \in ObjectStores
    /\ req = NoRequest
    /\ resp = NoResponse
    /\ session = NoSession

CallGetObject ==
    /\ component = "ObjectResolver"
    /\ req = NoRequest
    /\ \E object_id \in ObjectIds, storeFails \in BOOLEAN :
        /\ req' = [op |-> "get_object", object_id |-> object_id]
        /\ resp' = get_object(store, object_id, storeFails)
        /\ UNCHANGED <<component, store, session>>

CallTryGetPastObject ==
    /\ component = "ObjectResolver"
    /\ req = NoRequest
    /\ \E object_id \in ObjectIds, version \in Versions, storeFails \in BOOLEAN :
        /\ req' = [op |-> "try_get_past_object", object_id |-> object_id,
                   version |-> version]
        /\ resp' = try_get_past_object(store, object_id, version, storeFails)
        /\ UNCHANGED <<component, store, session>>

NextObject == CallGetObject \/ CallTryGetPastObject \/ Forget

SpecObject == InitObject /\ [][NextObject]_vars

(***************************************************************************)
(* Claims about ObjectResolver (checked under SpecObject)                  *)
(***************************************************************************)
Known == req.object_id = "0x5" /\ store.versions # {}

\* C10: state partition. A successful get_object answers exactly the one of
\* NotAnObject / Deleted / Exists that holds of the identifier in the store, and
\* a successful try_get_past_object exactly the one of VersionFound /
\* VersionNotFound / Deleted / OutOfRetainedRange that holds of the identifier
\* and version; a version before the retention window is OutOfRetainedRange.
StatePartition ==
    /\ (req.op = "get_object" /\ resp.ok) =>
         /\ resp.value.status \in {"NotAnObject", "Deleted", "Exists"}
         /\ resp.value.status = "NotAnObject" <=> ~Known
         /\ resp.value.status = "Deleted" <=> (Known /\ store.deleted)
         /\ resp.value.status = "Exists" <=> (Known /\ ~store.deleted)
    /\ (req.op = "try_get_past_object" /\ resp.ok) =>
         /\ resp.value.status \in
              {"VersionFound", "VersionNotFound", "Deleted", "OutOfRetainedRange"}
         /\ resp.value.status = "OutOfRetainedRange" <=>
              (Known /\ req.version < store.retained_from)
         /\ resp.value.status = "VersionNotFound" <=>
              (~Known \/ (req.version >= store.retained_from
                          /\ req.version \notin store.versions))
         /\ resp.value.status = "Deleted" <=>
              (Known /\ req.version >= store.retained_from /\ store.deleted
               /\ req.version = Latest(store.versions))
         /\ resp.value.status = "VersionFound" <=>
              (Known /\ req.version >= store.retained_from
               /\ req.version \in store.versions
               /\ ~(store.deleted /\ req.version = Latest(store.versions)))

StatePartitionWitness ==
    /\ req.op = "try_get_past_object"
    /\ resp.ok
    /\ resp.value.status = "OutOfRetainedRange"
    /\ store.deleted

(***************************************************************************)
(* MoveIntrospector: get_normalized_move_struct, get_normalized_move_function, *)
(* get_move_function_arg_types                                             *)
(***************************************************************************)
MaxParams == 4       \* a function declares at most MaxParams parameters

\* the variants of move_binary_format::normalized::Type, by kind
TypeKinds == {"U64", "Vector", "Struct", "Reference", "MutableReference"}

RECURSIVE SeqsUpTo(_, _)
SeqsUpTo(S, n) ==
    IF n = 0 THEN {<< >>}
    ELSE LET shorter == SeqsUpTo(S, n - 1)
         IN shorter \cup {Append(q, x) : q \in shorter, x \in S}

ParameterLists == SeqsUpTo(TypeKinds, MaxParams)

\* names are sequences of character classes: a letter, a digit, an underscore,
\* a character no identifier may hold
Letter == "a"
Digit == "1"
Underscore == "_"
Illegal == "$"
RequestNames ==
    {<< >>, <<Letter>>, <<Underscore>>, <<Digit>>, <<Illegal>>,
     <<Letter, Digit>>, <<Underscore, Letter>>, <<Letter, Illegal>>}

\* move_core_types::identifier::Identifier::new: a letter followed by letters,
\* digits and underscores, or an underscore followed by at least one of them
IsValidIdentifier(name) ==
    /\ Len(name) > 0
    /\ \A i \in 1..Len(name) : name[i] \in {Letter, Digit, Underscore}
    /\ name[1] # Digit
    /\ name[1] = Underscore => Len(name) > 1

Identifier_new(name) ==
    IF IsValidIdentifier(name) THEN [ok |-> TRUE, value |-> [identifier |-> name]]
    ELSE StoreErr("InvalidIdentifier", name)

\* the normalized modules of package "0x2": module "m" holds struct `a` and
\* function `a1`, whose parameters the package's bytecode fixes
ModulesOf(params) ==
    [m |-> [structs |-> {[name |-> [identifier |-> <<Letter>>], fields |-> << >>]},
            exposed_functions |->
                {[name |-> [identifier |-> <<Letter, Digit>>], parameters |-> params]}]]

MoveStores == [parameters : ParameterLists]

\* AuthorityState::get_object_read for the objects of this component: "0x2" is a
\* package, "0x5" a Move object, "0xD" was deleted, the read of "0xE" fails
move_get_object_read(st, id) ==
    IF id = "0xE" THEN StoreErr("UpstreamFailure", "object")
    ELSE IF id = "0x2"
    THEN StoreOk([kind |-> "Exists", data |-> "Package",
                  modules |-> ModulesOf(st.parameters)])
    ELSE IF id = "0x5" THEN StoreOk([kind |-> "Exists", data |-> "Move"])
    ELSE StoreOk([kind |-> "Deleted"])

\* get_move_modules_by_package
get_move_modules_by_package(st, package) ==
    LET object_read == move_get_object_read(st, package)
    IN IF ~object_read.ok THEN object_read
       ELSE IF object_read.value.kind = "Exists"
       THEN IF object_read.value.data = "Package"
            THEN StoreOk(object_read.value.modules)
            ELSE StoreErr("NotAPackage", package)
       ELSE StoreErr("PackageDoesNotExist", package)

\* get_move_module
get_move_module(st, package, module_name) ==
    LET normalized == get_move_modules_by_package(st, package)
    IN IF ~normalized.ok THEN normalized
       ELSE IF module_name \in DOMAIN normalized.value
       THEN StoreOk(normalized.value[module_name])
       ELSE StoreErr("ModuleNotFound", module_name)

\* BTreeMap::get on a map keyed by Identifier
Lookup(entries, identifier) ==
    LET found == {e \in entries : e.name = identifier}
    IN IF found = {} THEN None ELSE Some(CHOOSE e \in found : TRUE)

\* get_normalized_move_struct looking the name up before validating it
get_normalized_move_struct_unvalidated(st, package, module_name, struct_name) ==
    LET module == get_move_module(st, package, module_name)
    IN IF ~module.ok THEN module
       ELSE LET found == Lookup(module.value.structs, [identifier |-> struct_name])
            IN IF IsSome(found) THEN StoreOk(Unwrap(found))
               ELSE StoreErr("StructNotFound", struct_name)

\* ReadApi::get_normalized_move_struct
get_normalized_move_struct(st, package, module_name, struct_name) ==
    LET module == get_move_module(st, package, module_name)
    IN IF ~module.ok THEN module
       ELSE LET identifier == Identifier_new(struct_name)
            IN IF ~identifier.ok THEN identifier
               ELSE LET found == Lookup(module.value.structs, identifier.value)
                    IN IF IsSome(found) THEN StoreOk(Unwrap(found))
                       ELSE StoreErr("StructNotFound", struct_name)

\* ReadApi::get_normalized_move_function
get_normalized_move_function(st, package, module_name, function_name) ==
    LET module == get_move_module(st, package, module_name)
    IN IF ~module.ok THEN module
       ELSE LET identifier == Identifier_new(function_name)
            IN IF ~identifier.ok THEN identifier
               ELSE LET found == Lookup(module.value.exposed_functions,
                                        identifier.value)
                    IN IF IsSome(found) THEN StoreOk(Unwrap(found))
                       ELSE StoreErr("FunctionNotFound", function_name)

\* the match of get_move_function_arg_types with the reference arms exchanged
MoveFunctionArgType_swapped(p) ==
    IF p = "Struct" THEN [Object |-> "ByValue"]
    ELSE IF p = "Reference" THEN [Object |-> "ByMutableReference"]
    ELSE IF p = "MutableReference" THEN [Object |-> "ByImmutableReference"]
    ELSE "Pure"

\* the match of get_move_function_arg_types on one parameter type
MoveFunctionArgType(p) ==
    IF p = "Struct" THEN [Object |-> "ByValue"]
    ELSE IF p = "Reference" THEN [Object |-> "ByImmutableReference"]
    ELSE IF p = "MutableReference" THEN [Object |-> "ByMutableReference"]
    ELSE "Pure"

\* ReadApi::get_move_function_arg_types
get_move_function_arg_types(st, package, module, function) ==
    LET normalized == get_move_modules_by_package(st, package)
    IN IF ~normalized.ok THEN normalized
       ELSE LET identifier == Identifier_new(function)
            IN IF ~identifier.ok THEN identifier
               ELSE LET found ==
                          IF module \in DOMAIN normalized.value
                          THEN Lookup(normalized.value[module].exposed_functions,
                                      identifier.value)
                          ELSE None
                    IN IF IsSome(found)
                       THEN StoreOk([i \in 1..Len(Unwrap(found).parameters) |->
                                       MoveFunctionArgType(Unwrap(found).parameters[i])])
                       ELSE StoreErr("NoParametersFound", function)

MoveOps ==
    {"get_normalized_move_struct", "get_normalized_move_function",
     "get_move_function_arg_types"}

MoveTargets ==
    {<<"0x2", "m">>, <<"0x2", "x">>, <<"0x5", "m">>, <<"0xD", "m">>, <<"0xE", "m">>}

MoveCall(st, r) ==
    IF r.op = "get_normalized_move_struct"
    THEN get_normalized_move_struct(st, r.package, r.module, r.name)
    ELSE IF r.op = "get_normalized_move_function"
    THEN get_normalized_move_function(st, r.package, r.module, r.name)
    ELSE get_move_function_arg_types(st, r.package, r.module, r.name)

InitMove ==
    /\ component = "MoveIntrospector"
    /\ store \in MoveStores
    /\ req = NoRequest
    /\ resp = NoResponse
    /\ session = NoSession

CallMove ==
    /\ component = "MoveIntrospector"
    /\ req = NoRequest
    /\ \E op \in MoveOps, target \in MoveTargets, name \in RequestNames :
        /\ req' = [op |-> op, package |-> target[1], module |-> target[2],
                   name |-> name]
        /\ resp' = MoveCall(store, req')
        /\ UNCHANGED <<component, store, session>>

NextMove == CallMove \/ Forget

SpecMove == InitMove /\ [][NextMove]_vars

(***************************************************************************)
(* Claims about MoveIntrospector (checked under SpecMove)                  *)
(***************************************************************************)
ModuleResolved == req.package = "0x2" /\ req.module = "m"
NotFoundErrors == {"StructNotFound", "FunctionNotFound"}
KnownNames ==
    IF req.op = "get_normalized_move_struct" THEN {<<Letter>>}
    ELSE {<<Letter, Digit>>}

\* the mode the specification gives a parameter type
Mode(kind) ==
    CASE kind = "Struct" -> [Object |-> "ByValue"]
      [] kind = "Reference" -> [Object |-> "ByImmutableReference"]
      [] kind = "MutableReference" -> [Object |-> "ByMutableReference"]
      [] OTHER -> "Pure"

\* C7: for a function that exists, get_move_function_arg_types succeeds whatever
\* the parameter types are, and returns one mode per declared parameter, in
\* declaration order: Struct ByValue, Reference ByImmutableReference,
\* MutableReference ByMutableReference, anything else Pure.
ClassificationTotal ==
    (req.op = "get_move_function_arg_types" /\ ModuleResolved
     /\ req.name = <<Letter, Digit>>) =>
        /\ resp.ok
        /\ Len(resp.value) = Len(store.parameters)
        /\ \A i \in 1..Len(store.parameters) :
             resp.value[i] = Mode(store.parameters[i])

ClassificationTotalWitness ==
    /\ req.op = "get_move_function_arg_types"
    /\ store.parameters = <<"Struct", "Reference", "MutableReference", "U64">>
    /\ resp.ok
    /\ resp.value = <<[Object |-> "ByValue"], [Object |-> "ByImmutableReference"],
                      [Object |-> "ByMutableReference"], "Pure">>

\* C8: in get_normalized_move_struct and get_normalized_move_function the name
\* is validated before it is looked up in the module: an invalid name gives
\* InvalidIdentifier and never a not-found of the struct or function, a valid
\* name absent from the module gives StructNotFound / FunctionNotFound and never
\* InvalidIdentifier.
IdentifierValidatedFirst ==
    (req.op \in {"get_normalized_move_struct", "get_normalized_move_function"}) =>
        /\ (ModuleResolved /\ ~IsValidIdentifier(req.name)) =>
             (~resp.ok /\ resp.error.kind = "InvalidIdentifier")
        /\ (ModuleResolved /\ IsValidIdentifier(req.name)
            /\ req.name \notin KnownNames) =>
             (~resp.ok /\ resp.error.kind =
                IF req.op = "get_normalized_move_struct" THEN "StructNotFound"
                ELSE "FunctionNotFound")
        /\ (~resp.ok /\ resp.error.kind \in NotFoundErrors) =>
             IsValidIdentifier(req.name)
        /\ (~resp.ok /\ resp.error.kind = "InvalidIdentifier") =>
             ~IsValidIdentifier(req.name)
        /\ (ModuleResolved /\ req.name \in KnownNames) => resp.ok

IdentifierValidatedFirstWitness ==
    /\ req.op = "get_normalized_move_struct"
    /\ ModuleResolved
    /\ req.name = <<Letter, Illegal>>
    /\ ~resp.ok
    /\ resp.error.kind = "InvalidIdentifier"

(***************************************************************************)
(* TransactionCodec: get_transaction_data_and_digest                       *)
(***************************************************************************)
MaxTextLen == 6      \* an encoded transaction holds at most MaxTextLen characters

\* The text encoding, scaled down: a character carries 2 bits, two characters
\* make one byte of 4 bits; "!" is outside the alphabet.
Alphabet == <<"A", "B", "C", "D">>
TextChars == {"A", "B", "C", "D", "!"}
EncodedTexts == SeqsUpTo(TextChars, MaxTextLen)

CharValue(c) == (CHOOSE i \in 1..Len(Alphabet) : Alphabet[i] = c) - 1

\* Base64::to_vec
Base64_to_vec(text) ==
    IF \E i \in 1..Len(text) : \A j \in 1..Len(Alphabet) : Alphabet[j] # text[i]
    THEN StoreErr("MalformedEncoding", "character")
    ELSE IF Len(text) % 2 # 0 THEN StoreErr("MalformedEncoding", "length")
    ELSE StoreOk([i \in 1..(Len(text) \div 2) |->
                    Len(Alphabet) * CharValue(text[2 * i - 1]) + CharValue(text[2 * i])])

\* TransactionData, scaled down: the variant index of its kind, then one byte
TransactionKinds == <<"Single", "Batch">>

\* bcs::from_bytes::<TransactionData>
bcs_from_bytes(bytes) ==
    IF Len(bytes) < 2 THEN StoreErr("MalformedPayload", "unexpected end of input")
    ELSE IF bytes[1] >= Len(TransactionKinds)
    THEN StoreErr("MalformedPayload", "variant index")
    ELSE IF Len(bytes) > 2 THEN StoreErr("MalformedPayload", "remaining input")
    ELSE StoreOk([kind |-> TransactionKinds[bytes[1] + 1], gas_budget |-> bytes[2]])

\* the canonical serialization of a TransactionData
bcs_to_bytes(tx_data) ==
    <<(CHOOSE i \in 1..Len(TransactionKinds) : TransactionKinds[i] = tx_data.kind) - 1,
      tx_data.gas_budget>>

\* sui_types::intent: the envelope and its serialization, one byte per tag
IntentVersions == <<"V0">>
IntentScopes == <<"TransactionData", "TransactionEffects", "CheckpointSummary",
                  "PersonalMessage">>
AppIds == <<"Sui">>
TagOf(variants, v) == (CHOOSE i \in 1..Len(variants) : variants[i] = v) - 1

IntentMessage_new(intent, value) == [intent |-> intent, value |-> value]

bcs_intent_message(intent_msg) ==
    <<TagOf(IntentVersions, intent_msg.intent.version),
      TagOf(IntentScopes, intent_msg.intent.scope),
      TagOf(AppIds, intent_msg.intent.app_id)>> \o bcs_to_bytes(intent_msg.value)

\* sui_types::crypto::sha3_hash: a one-way hash, kept as its input
sha3_hash(bytes) == <<"sha3_256", bytes>>

TransactionDigest_new(hash) == [digest |-> hash]

\* the Intent get_transaction_data_and_digest builds
TransactionIntent == [version |-> "V0", scope |-> "TransactionData", app_id |-> "Sui"]

\* get_transaction_data_and_digest
get_transaction_data_and_digest(tx_bytes) ==
    LET raw == Base64_to_vec(tx_bytes)
    IN IF ~raw.ok THEN raw
       ELSE LET tx_data == bcs_from_bytes(raw.value)
            IN IF ~tx_data.ok THEN tx_data
               ELSE LET intent_msg == IntentMessage_new(TransactionIntent, tx_data.value)
                        txn_digest == TransactionDigest_new(
                                          sha3_hash(bcs_to_bytes(intent_msg.value)))
                    IN StoreOk([data |-> intent_msg.value, digest |-> txn_digest])

InitTx ==
    /\ component = "TransactionCodec"
    /\ store = << >>
    /\ req = NoRequest
    /\ resp = NoResponse
    /\ session = NoSession

CallDecode ==
    /\ component = "TransactionCodec"
    /\ req = NoRequest
    /\ \E tx_bytes \in EncodedTexts :
        /\ req' = [op |-> "get_transaction_data_and_digest", tx_bytes |-> tx_bytes]
        /\ resp' = get_transaction_data_and_digest(tx_bytes)
        /\ UNCHANGED <<component, store, session>>

NextTx == CallDecode \/ Forget

SpecTx == InitTx /\ [][NextTx]_vars

(***************************************************************************)
(* Claims about TransactionCodec (checked under SpecTx)                    *)
(***************************************************************************)
\* C4: the digest of a decoded transaction is the hash of the serialization of
\* the intent-wrapped payload (version tag, transaction-data scope tag,
\* application id, payload), and is not the hash of the bare payload.
DigestCoversIntent ==
    (req.op = "get_transaction_data_and_digest" /\ resp.ok) =>
        /\ resp.value.digest =
             TransactionDigest_new(sha3_hash(bcs_intent_message(
                 IntentMessage_new(TransactionIntent, resp.value.data))))
        /\ resp.value.digest #
             TransactionDigest_new(sha3_hash(bcs_to_bytes(resp.value.data)))

====
